---- MODULE Spec2Model ----
(***************************************************************************)
(* A model of utils.py: the dataset padder, the distributed scalar         *)
(* averager, the checkpoint wiring of the training engine and the          *)
(* fetch / encode / cache pipeline get_and_tokenize_dataset.               *)
(*                                                                         *)
(* Text is a sequence of one-character strings, so that str.strip,         *)
(* str.replace, str.split and file.readlines are computed character by     *)
(* character as Python computes them.                                      *)
(***************************************************************************)
EXTENDS Integers, Sequences, FiniteSets, TLC

\* ------------------------------------------------------------------ bounds

\* Pieces concatenated into the corpus text under test.
MaxPieces == 3
\* Pieces concatenated into the label text under test.
MaxLabelPieces == 3
\* Calls of get_and_tokenize_dataset one process makes in the cache runs.
MaxCalls == 2
\* Calls each of the two concurrent processes makes.
MaxConcCalls == 2

\* Rows of a dataset given to pad_dataset, and the length of a row.
MaxRows == 3
MaxRowLen == 2
\* Workers of a distributed run.
MaxWorkers == 3
\* Epochs the trainer is run for, and iterations of one epoch.
MaxEpochs == 5
MaxIters == 2

\* ------------------------------------------------------------ text helpers

SP == " "
NL == "\n"
\* The characters str.strip() with no argument removes (those of the alphabet).
Whitespace == {SP, NL}

SEP == <<"[", "S", "E", "P", "]">>
UNK == <<"[", "U", "N", "K", "]">>
RAWUNK == <<"<", "u", "n", "k", ">">>

RECURSIVE lstrip(_, _)
lstrip(s, chars) ==
    IF s # <<>> /\ Head(s) \in chars THEN lstrip(Tail(s), chars) ELSE s

RECURSIVE rstrip(_, _)
rstrip(s, chars) ==
    IF s # <<>> /\ s[Len(s)] \in chars
    THEN rstrip(SubSeq(s, 1, Len(s) - 1), chars)
    ELSE s

\* str.strip(chars): both ends.
strip(s, chars) == rstrip(lstrip(s, chars), chars)

\* str.replace(old, new): leftmost non-overlapping occurrences, old non-empty.
RECURSIVE replace(_, _, _)
replace(s, old, new) ==
    IF Len(s) < Len(old) THEN s
    ELSE IF SubSeq(s, 1, Len(old)) = old
         THEN new \o replace(SubSeq(s, Len(old) + 1, Len(s)), old, new)
         ELSE <<Head(s)>> \o replace(Tail(s), old, new)

\* str.split(sep) with a one-character separator: every field, empty ones too.
RECURSIVE splitFrom(_, _, _)
splitFrom(s, sep, cur) ==
    IF s = <<>> THEN <<cur>>
    ELSE IF Head(s) = sep
         THEN <<cur>> \o splitFrom(Tail(s), sep, <<>>)
         ELSE splitFrom(Tail(s), sep, Append(cur, Head(s)))

split(s, sep) == splitFrom(s, sep, <<>>)

\* file.readlines(): each line keeps its newline; a last line may have none.
RECURSIVE readlinesFrom(_, _)
readlinesFrom(text, cur) ==
    IF text = <<>> THEN (IF cur = <<>> THEN <<>> ELSE <<cur>>)
    ELSE IF Head(text) = NL
         THEN <<Append(cur, NL)>> \o readlinesFrom(Tail(text), <<>>)
         ELSE readlinesFrom(Tail(text), Append(cur, Head(text)))

readlines(text) == readlinesFrom(text, <<>>)

SetMin(S) == CHOOSE x \in S : \A y \in S : x <= y

SetMax(S) == CHOOSE x \in S : \A y \in S : y <= x

RECURSIVE sum(_)
sum(xs) == IF xs = <<>> THEN 0 ELSE Head(xs) + sum(Tail(xs))

\* Mutant of flatten: the lines are gathered last line first.
RECURSIVE flatten_lastFirst(_)
flatten_lastFirst(lines) ==
    IF lines = <<>> THEN <<>> ELSE flatten_lastFirst(Tail(lines)) \o Head(lines)

\* [ind for line in lines for ind in line]
RECURSIVE flatten(_)
flatten(lines) == IF lines = <<>> THEN <<>> ELSE Head(lines) \o flatten(Tail(lines))

\* Every concatenation of at most n members of pieces.
RECURSIVE TextsOf(_, _)
TextsOf(pieces, n) ==
    IF n = 0 THEN {<<>>}
    ELSE LET shorter == TextsOf(pieces, n - 1)
         IN shorter \cup {t \o q : t \in shorter, q \in pieces}

\* -------------------------------------------------- the dataset registry

Convert == (<<"p", "o", "s">> :> 0) @@ (<<"n", "e", "g">> :> 1)

DATASETS_URL ==
    ("wikitext-2" :> [train |-> <<"wikitext-2/train.txt">>,
                      valid |-> <<"wikitext-2/valid.txt">>])
 @@ ("wikitext-103" :> [train |-> <<"wikitext-103/wiki.train.tokens">>,
                        valid |-> <<"wikitext-103/wiki.valid.tokens">>])
 @@ ("simplebooks-2-raw" :> [train |-> <<"simplebooks-2-raw/train.txt">>,
                             valid |-> <<"simplebooks-2-raw/valid.txt">>])
 @@ ("simplebooks-92-raw" :> [train |-> <<"simplebooks-92-raw/train.txt">>,
                              valid |-> <<"simplebooks-92-raw/valid.txt">>])
 @@ ("imdb" :> [train |-> <<"aclImdb/train.txt">>,
                valid |-> <<"aclImdb/valid.txt">>,
                labels |-> [train |-> <<"aclImdb/train.labels.txt">>,
                            valid |-> <<"aclImdb/valid.labels.txt">>,
                            convert |-> Convert]])

\* for split_name in ['train', 'valid']
Splits == <<"train", "valid">>

\* os.path.join(dataset_dir, name)
Join(dir, name) == <<dir, name>>

\* Lines 88-92: the registry entry, or train.txt / valid.txt under a directory.
Resolve(dataset_dir) ==
    IF dataset_dir \in DOMAIN DATASETS_URL
    THEN DATASETS_URL[dataset_dir]
    ELSE [train |-> Join(dataset_dir, "train.txt"),
          valid |-> Join(dataset_dir, "valid.txt")]

\* ------------------------------------------------------- the tokenizers
\* The tokenizer is an argument of the call: two are passed here, one that
\* splits on spaces and looks whole words up, one that encodes each character.

Tokenizers == {"word", "char"}

CharId(c) ==
    CASE c = SP -> 10 [] c = NL -> 11 [] c = "a" -> 12 [] c = "[" -> 13
      [] c = "]" -> 14 [] c = "<" -> 15 [] c = ">" -> 16 [] c = "S" -> 17
      [] c = "E" -> 18 [] c = "P" -> 19 [] c = "U" -> 20 [] c = "N" -> 21
      [] c = "K" -> 22 [] c = "u" -> 23 [] c = "n" -> 24 [] c = "k" -> 25
      [] OTHER -> 99

WordId(w) ==
    IF w = SEP THEN 102
    ELSE IF w = UNK THEN 100
    ELSE IF w = <<"a">> THEN 1
    ELSE 1000 + Len(w)

tokenize(tok, text) ==
    IF tok = "char" THEN [i \in 1..Len(text) |-> <<text[i]>>]
    ELSE SelectSeq(split(text, SP), LAMBDA w : w # <<>>)

convert_tokens_to_ids(tok, tokens) ==
    IF tok = "char" THEN [i \in 1..Len(tokens) |-> CharId(tokens[i][1])]
    ELSE [i \in 1..Len(tokens) |-> WordId(tokens[i])]

\* ---------------------------------------- get_and_tokenize_dataset: steps

\* Mutant of PreprocessLine: lstrip(' ') in place of strip(' ').
PreprocessLine_lstrip(line) ==
    replace(replace(lstrip(line, {SP}), <<NL>>, SEP), RAWUNK, UNK)

\* Line 100, applied to one line of readlines().
PreprocessLine(line) ==
    replace(replace(strip(line, {SP}), <<NL>>, SEP), RAWUNK, UNK)

\* Lines 98-100: the lines of one split, in file order.
PreprocessLines(text) ==
    LET all_lines == readlines(text)
    IN [i \in 1..Len(all_lines) |-> PreprocessLine(all_lines[i])]

\* Mutant of LabelKey: only the newline is stripped.
LabelKey_newlineOnly(line) == strip(line, {NL})

\* Line 107: the stripped label line is looked up in the convert table.
LabelKey(line) == strip(line, Whitespace)

LabelsConvertible(text, convert) ==
    \A i \in 1..Len(readlines(text)) : LabelKey(readlines(text)[i]) \in DOMAIN convert

ConvertLabels(text, convert) ==
    LET all_lines == readlines(text)
    IN [i \in 1..Len(all_lines) |-> convert[LabelKey(all_lines[i])]]

\* Lines 111-117: encode on a string, on a list of strings, on the dataset dict.
encodeStr(tok, obj) == convert_tokens_to_ids(tok, tokenize(tok, obj))

encodeList(tok, obj) == [i \in 1..Len(obj) |-> encodeStr(tok, obj[i])]

encode(tok, obj) == [n \in DOMAIN obj |-> encodeList(tok, obj[n])]

\* Mutant of NumWords: split() with no argument, which drops the empty fields.
NumWords_nonEmpty(lines) ==
    sum([i \in 1..Len(lines) |->
            Len(SelectSeq(split(lines[i], SP), LAMBDA w : w # <<>>))])

\* Line 125: sum(len(line.split(' ')) for line in dataset[split_name]).
NumWords(lines) == sum([i \in 1..Len(lines) |-> Len(split(lines[i], SP))])

\* Lines 121-125, one iteration of the loop over the splits.
PostProcessSplit(enc, split_name, with_labels, ds, labs) ==
    IF with_labels
    THEN ((split_name \o "_labels") :> labs[split_name]) @@ enc
    ELSE ((split_name \o "_num_words") :> NumWords(ds[split_name]))
         @@ (split_name :> flatten(enc[split_name])) @@ enc

\* Lines 120-125: the loop over both splits.
PostProcessAll(enc, with_labels, ds, labs) ==
    PostProcessSplit(PostProcessSplit(enc, Splits[1], with_labels, ds, labs),
                     Splits[2], with_labels, ds, labs)

\* ------------------------------------------------------------ pad_dataset

\* Values of the integer rows, and fill values passed as padding; 0 is both a
\* row value and the default fill.
RowValues == {0, 1}

Fills == {0, 9}

\* [padding] * n
Repeat(x, n) == [k \in 1..n |-> x]

\* Mutant of pad_dataset: the fill is put before the row.
pad_dataset_fillFirst(dataset, padding) ==
    LET max_l == SetMax({Len(dataset[i]) : i \in 1..Len(dataset)})
    IN [i \in 1..Len(dataset) |-> Repeat(padding, max_l - Len(dataset[i])) \o dataset[i]]

\* Lines 55-57.
pad_dataset(dataset, padding) ==
    LET max_l == SetMax({Len(dataset[i]) : i \in 1..Len(dataset)})
    IN [i \in 1..Len(dataset) |-> dataset[i] \o Repeat(padding, max_l - Len(dataset[i]))]

RECURSIVE SeqsUpTo(_, _)
SeqsUpTo(S, n) ==
    IF n = 0 THEN {<<>>}
    ELSE LET shorter == SeqsUpTo(S, n - 1)
         IN shorter \cup {Append(t, x) : t \in shorter, x \in S}

VARIABLES
    padDataset,    \* the argument dataset of the call of pad_dataset
    padRest,       \* the arguments after it: <<>> or <<padding>>
    padPc,         \* "idle" before the call, "done" after it
    padResult      \* what the call returned or raised

padVars == <<padDataset, padRest, padPc, padResult>>

\* ----------------------------------------------- average_distributed_scalar

\* Scalars handed to the averager, and what it computes with: fractions.
Scalars == {-1, 0, 3}

Frac(n, d) == [num |-> n, den |-> d]

FracAdd(x, y) == Frac(x.num * y.den + y.num * x.den, x.den * y.den)

FracEq(x, y) == x.num * y.den = y.num * x.den

\* Mutant of Scaled: the division by the world size is left out.
Scaled_undivided(scalar, size) == scalar

\* Line 46: torch.tensor(scalar) / torch.distributed.get_world_size()
Scaled(scalar, size) == Frac(scalar.num, scalar.den * size)

RECURSIVE SumFirst(_, _)
SumFirst(f, n) == IF n = 0 THEN Frac(0, 1) ELSE FracAdd(SumFirst(f, n - 1), f[n])

VARIABLES
    world_size,    \* torch.distributed.get_world_size(); 0 when not distributed
    local_rank,    \* worker -> args.local_rank
    scalar,        \* worker -> the scalar it passes
    scalar_t,      \* worker -> its tensor
    contributed,   \* the workers that have entered the all_reduce
    avgPc,         \* worker -> "start", "all_reduce", "waiting" or "done"
    avgResult      \* worker -> what its call returned

avgVars == <<world_size, local_rank, scalar, scalar_t, contributed, avgPc, avgResult>>

\* ---------------------------------------- add_logging_and_checkpoint_saving

\* Line 76: ModelCheckpoint(..., save_interval=1, n_saved=3)
save_interval == 1

n_saved == 3

\* Mutant of CheckpointEvent: the handler is attached to the iterations.
CheckpointEvent_iteration == "ITERATION_COMPLETED"

\* Line 77: trainer.add_event_handler(Events.EPOCH_COMPLETED, checkpoint_handler, ...)
CheckpointEvent == "EPOCH_COMPLETED"

\* Line 37.
CONFIG_NAME == "model_training_args.bin"

VARIABLES
    engine,         \* where the trainer is: "new", "attached", then the event it fired last
    max_epochs,     \* the epochs trainer.run is asked for
    epoch_length,   \* the iterations of one epoch (the length of the data)
    handlers,       \* <<engine, event>> -> the handlers on it, in attachment order
    epoch,          \* trainer.state.epoch
    iteration,      \* trainer.state.iteration
    tb_scalars,     \* scalars written to the tensorboard writer
    cp_iteration,   \* checkpoint_handler._iteration
    cp_saved,       \* checkpoint_handler._saved: <<priority, file>> pairs
    log_dir         \* the files of tb_logger.writer.log_dir

ckptVars == <<engine, max_epochs, epoch_length, handlers, epoch, iteration,
              tb_scalars, cp_iteration, cp_saved, log_dir>>

\* ------------------------------------------------------------- the world

\* The two processes that may call the pipeline.
Procs == {1, 2}

\* Dataset identifiers callers pass: two registry names and a local directory.
DatasetIds == {"wikitext-2", "imdb", "data"}

\* Cache paths callers pass; "" stands for None (falsy on line 84).
CachePaths == {"p1", "p2"}

A == "a"

CorpusLocs ==
    {DATASETS_URL[d][Splits[i]] : d \in DOMAIN DATASETS_URL, i \in 1..2}
    \cup {Join("data", "train.txt"), Join("data", "valid.txt")}

LabelLocs == {DATASETS_URL["imdb"].labels[Splits[i]] : i \in 1..2}

Locs == CorpusLocs \cup LabelLocs

\* The text every resource holds unless a run puts another text there.
DefaultText(loc) ==
    CASE loc = <<"wikitext-2/train.txt">> -> <<SP, A, SP, A, SP, NL, SP, A, NL>>
      [] loc = <<"wikitext-2/valid.txt">> -> <<SP, A, SP, NL>>
      [] loc = <<"aclImdb/train.txt">> -> <<A, SP>> \o RAWUNK \o <<NL, A, NL>>
      [] loc = <<"aclImdb/valid.txt">> -> <<A, SP, A>>
      [] loc = <<"aclImdb/train.labels.txt">> -> <<"p", "o", "s", NL, "n", "e", "g", NL>>
      [] loc = <<"aclImdb/valid.labels.txt">> -> <<"n", "e", "g", NL>>
      [] loc = Join("data", "train.txt") -> RAWUNK \o <<SP, A, NL>>
      [] loc = Join("data", "valid.txt") -> <<SP, A>>
      [] OTHER -> <<A, NL>>

DefaultWorld == [loc \in Locs |-> DefaultText(loc)]

CorpusPieces == {<<SP>>, <<NL>>, <<A>>, RAWUNK}

LabelPieces == {<<SP>>, <<NL>>, <<"p", "o", "s">>, <<"n", "e", "g">>}

\* A file of the cache: absent, being written (or cut short), or whole.
Absent == [kind |-> "absent", content |-> [nodata |-> TRUE]]

Partial == [kind |-> "partial", content |-> [nodata |-> TRUE]]

Complete(content) == [kind |-> "complete", content |-> content]

\* An encoded dataset left at a cache path by an earlier run.
StaleContent == [train |-> <<7, 7>>, valid |-> <<7>>,
                 train_num_words |-> 2, valid_num_words |-> 1]

NoArgs == [tokenizer |-> "word", dataset_dir |-> "wikitext-103",
           dataset_cache |-> "", with_labels |-> FALSE]

NoIO == [download |-> 0, read |-> 0, tokenize |-> 0, write |-> 0]

NoResult == [status |-> "none", value |-> [nodata |-> TRUE]]

\* {}: the dict with no key.
EmptyDict == <<>>

VARIABLES
    world,            \* resource location -> the text stored there
    cacheFile,        \* cache path -> Absent, Partial or Complete(content)
    writers,          \* cache path -> the processes that have it open for writing
    mixed,            \* cache path -> the contents written since it was last opened
                      \*               with no other writer on it
    run,              \* which callers the run has: "cache", "encode" or "race"
    callsLeft,        \* process -> calls it may still make
    pc,               \* process -> its position in get_and_tokenize_dataset
    args,             \* process -> the arguments of its current call
    split_i,          \* process -> index into Splits of the running loop
    dataset,          \* process -> local dataset
    labels,           \* process -> local labels
    encoded_dataset,  \* process -> local encoded_dataset
    result,           \* process -> what its last call returned or raised
    io,               \* process -> downloads, reads, tokenizer calls, writes of its call
    miss,             \* process -> its current call took the else branch of line 84
    completed,        \* cache paths some call given them has returned from
    priorCompleted,   \* process -> its call's path was in completed when it started
    saves             \* process -> times it has opened a cache file for writing

\* The variables of the other functions of utils.py.
nonPipeVars == <<padVars, avgVars, ckptVars>>

vars == <<padVars, avgVars, ckptVars, world, cacheFile, writers, mixed, run,
          callsLeft, pc, args, split_i, dataset, labels, encoded_dataset, result,
          io, miss, completed, priorCompleted, saves>>

pipeVars == <<world, cacheFile, writers, mixed, run, callsLeft, pc, args, split_i, dataset,
              labels, encoded_dataset, result, io, miss, completed, priorCompleted,
              saves>>

\* os.path.isfile(path)
isfile(path) == cacheFile[path].kind # "absent"

\* An exception leaves the call: nothing of the function runs after it.
Raise(p, err) ==
    /\ pc' = [pc EXCEPT ![p] = "idle"]
    /\ result' = [result EXCEPT ![p] = [status |-> "raised", value |-> [error |-> err]]]

AllArgs(paths) ==
    [tokenizer : Tokenizers, dataset_dir : DatasetIds,
     dataset_cache : paths, with_labels : BOOLEAN]

\* The arguments the callers of a run pass.
ArgSpace(r) ==
    IF r = "cache" THEN AllArgs(CachePaths \cup {""})
    ELSE IF r = "encode" THEN AllArgs({"p1", ""})
    ELSE [tokenizer : {"char"}, dataset_dir : {"imdb"},
          dataset_cache : {"p1"}, with_labels : BOOLEAN]

\* A call starts with arguments of the run's argument space.
Call(p) ==
    /\ pc[p] = "idle"
    /\ callsLeft[p] > 0
    /\ \E a \in ArgSpace(run) :
          /\ args' = [args EXCEPT ![p] = a]
          /\ priorCompleted' = [priorCompleted EXCEPT ![p] = a.dataset_cache \in completed]
    /\ callsLeft' = [callsLeft EXCEPT ![p] = @ - 1]
    /\ pc' = [pc EXCEPT ![p] = "check"]
    /\ split_i' = [split_i EXCEPT ![p] = 1]
    /\ dataset' = [dataset EXCEPT ![p] = EmptyDict]
    /\ labels' = [labels EXCEPT ![p] = EmptyDict]
    /\ encoded_dataset' = [encoded_dataset EXCEPT ![p] = EmptyDict]
    /\ result' = [result EXCEPT ![p] = NoResult]
    /\ io' = [io EXCEPT ![p] = NoIO]
    /\ miss' = [miss EXCEPT ![p] = FALSE]
    /\ UNCHANGED <<nonPipeVars, world, cacheFile, writers, mixed, run, completed, saves>>

\* Mutant of CacheHit: a cached file is not used when labels are asked for.
CacheHit_unlessLabels(p) ==
    /\ args[p].dataset_cache # ""
    /\ isfile(args[p].dataset_cache)
    /\ ~args[p].with_labels

\* Line 84: if dataset_cache and os.path.isfile(dataset_cache)
CacheHit(p) == args[p].dataset_cache # "" /\ isfile(args[p].dataset_cache)

\* Mutant of CheckCache: the test waits while another process is past its own test.
CheckCache_locked(p) ==
    /\ pc[p] = "check"
    /\ \A q \in Procs \ {p} : pc[q] \in {"idle", "check"}
    /\ IF CacheHit(p)
       THEN /\ pc' = [pc EXCEPT ![p] = "load"]
            /\ miss' = miss
       ELSE /\ pc' = [pc EXCEPT ![p] = "acquire"]
            /\ miss' = [miss EXCEPT ![p] = TRUE]
    /\ UNCHANGED <<nonPipeVars, world, cacheFile, writers, mixed, run, callsLeft, args, split_i,
                   dataset, labels, encoded_dataset, result, io, completed,
                   priorCompleted, saves>>

CheckCache(p) ==
    /\ pc[p] = "check"
    /\ IF CacheHit(p)
       THEN /\ pc' = [pc EXCEPT ![p] = "load"]
            /\ miss' = miss
       ELSE /\ pc' = [pc EXCEPT ![p] = "acquire"]
            /\ miss' = [miss EXCEPT ![p] = TRUE]
    /\ UNCHANGED <<nonPipeVars, world, cacheFile, writers, mixed, run, callsLeft, args, split_i, dataset,
                   labels, encoded_dataset, result, io, completed, priorCompleted, saves>>

\* Line 86: torch.load(dataset_cache); a file cut short does not deserialize.
Load(p) ==
    /\ pc[p] = "load"
    /\ IF cacheFile[args[p].dataset_cache].kind = "complete"
       THEN /\ encoded_dataset' = [encoded_dataset EXCEPT
                                     ![p] = cacheFile[args[p].dataset_cache].content]
            /\ pc' = [pc EXCEPT ![p] = "return"]
            /\ result' = result
       ELSE /\ Raise(p, "UnpicklingError")
            /\ encoded_dataset' = encoded_dataset
    /\ UNCHANGED <<nonPipeVars, world, cacheFile, writers, mixed, run, callsLeft, args, split_i, dataset,
                   labels, io, miss, completed, priorCompleted, saves>>

\* Where the loop over the splits goes after iteration split_i.
AfterSplit(p, next) ==
    IF split_i[p] < Len(Splits)
    THEN /\ split_i' = [split_i EXCEPT ![p] = @ + 1]
         /\ pc' = pc
    ELSE /\ split_i' = [split_i EXCEPT ![p] = 1]
         /\ pc' = [pc EXCEPT ![p] = next]

\* Mutant of AcquireOk: the cache file is opened for writing before the splits
\* are read.
AcquireOk_opensCache(p) ==
    LET split_name == Splits[split_i[p]]
        dataset_file == Resolve(args[p].dataset_dir)[split_name]
    IN /\ pc[p] = "acquire"
       /\ dataset' = [dataset EXCEPT
                        ![p] = (split_name :> PreprocessLines(world[dataset_file])) @@ @]
       /\ io' = [io EXCEPT ![p].download = @ + 1, ![p].read = @ + 1]
       /\ AfterSplit(p, IF args[p].with_labels THEN "labels" ELSE "encode")
       /\ cacheFile' = IF args[p].dataset_cache # ""
                       THEN [cacheFile EXCEPT ![args[p].dataset_cache] = Partial]
                       ELSE cacheFile
       /\ UNCHANGED <<nonPipeVars, world, writers, mixed, run, callsLeft, args, labels,
                      encoded_dataset, result, miss, completed, priorCompleted, saves>>

\* Lines 96-100 for one split: cached_path, open, readlines, the preprocessing.
AcquireOk(p) ==
    LET split_name == Splits[split_i[p]]
        dataset_file == Resolve(args[p].dataset_dir)[split_name]
    IN /\ pc[p] = "acquire"
       /\ dataset' = [dataset EXCEPT
                        ![p] = (split_name :> PreprocessLines(world[dataset_file])) @@ @]
       /\ io' = [io EXCEPT ![p].download = @ + 1, ![p].read = @ + 1]
       /\ AfterSplit(p, IF args[p].with_labels THEN "labels" ELSE "encode")
       /\ UNCHANGED <<nonPipeVars, world, cacheFile, writers, mixed, run, callsLeft, args, labels,
                      encoded_dataset, result, miss, completed, priorCompleted, saves>>

\* Lines 96-97: the download or the open fails.
AcquireFail(p) ==
    /\ pc[p] = "acquire"
    /\ Raise(p, "IOError")
    /\ UNCHANGED <<nonPipeVars, world, cacheFile, writers, mixed, run, callsLeft, args, split_i, dataset,
                   labels, encoded_dataset, io, miss, completed, priorCompleted, saves>>

Acquire(p) == AcquireOk(p) \/ AcquireFail(p)

\* Lines 104-107 for one split: the label file is fetched, read and converted.
LabelsRead(p) ==
    LET split_name == Splits[split_i[p]]
        dataset_dir == Resolve(args[p].dataset_dir)
    IN /\ pc[p] = "labels"
       /\ IF "labels" \notin DOMAIN dataset_dir
          THEN /\ Raise(p, "KeyError")
               /\ UNCHANGED <<labels, io, split_i>>
          ELSE LET text == world[dataset_dir.labels[split_name]]
                   convert == dataset_dir.labels.convert
               IN IF LabelsConvertible(text, convert)
                  THEN /\ labels' = [labels EXCEPT
                                  ![p] = (split_name :> ConvertLabels(text, convert)) @@ @]
                       /\ io' = [io EXCEPT ![p].download = @ + 1, ![p].read = @ + 1]
                       /\ AfterSplit(p, "encode")
                       /\ result' = result
                  ELSE /\ Raise(p, "KeyError")
                       /\ io' = [io EXCEPT ![p].download = @ + 1, ![p].read = @ + 1]
                       /\ UNCHANGED <<labels, split_i>>
       /\ UNCHANGED <<nonPipeVars, world, cacheFile, writers, mixed, run, callsLeft, args, dataset,
                      encoded_dataset, miss, completed, priorCompleted, saves>>

\* Lines 104-105: the download or the open of the label file fails.
LabelsFail(p) ==
    /\ pc[p] = "labels"
    /\ "labels" \in DOMAIN Resolve(args[p].dataset_dir)
    /\ Raise(p, "IOError")
    /\ UNCHANGED <<nonPipeVars, world, cacheFile, writers, mixed, run, callsLeft, args, split_i, dataset,
                   labels, encoded_dataset, io, miss, completed, priorCompleted, saves>>

AcquireLabels(p) == LabelsRead(p) \/ LabelsFail(p)

\* Line 117: encoded_dataset = encode(dataset)
EncodeOk(p) ==
    /\ pc[p] = "encode"
    /\ encoded_dataset' = [encoded_dataset EXCEPT
                             ![p] = encode(args[p].tokenizer, dataset[p])]
    /\ io' = [io EXCEPT ![p].tokenize =
                 @ + Len(dataset[p][Splits[1]]) + Len(dataset[p][Splits[2]])]
    /\ pc' = [pc EXCEPT ![p] = "post"]
    /\ UNCHANGED <<nonPipeVars, world, cacheFile, writers, mixed, run, callsLeft, args, split_i, dataset,
                   labels, result, miss, completed, priorCompleted, saves>>

\* Line 113: the tokenizer raises.
EncodeFail(p) ==
    /\ pc[p] = "encode"
    /\ Raise(p, "TokenizerError")
    /\ UNCHANGED <<nonPipeVars, world, cacheFile, writers, mixed, run, callsLeft, args, split_i, dataset,
                   labels, encoded_dataset, io, miss, completed, priorCompleted, saves>>

Encode(p) == EncodeOk(p) \/ EncodeFail(p)

\* Lines 120-127: labels or flattening and word counts, then the test of line 127.
PostProcess(p) ==
    /\ pc[p] = "post"
    /\ encoded_dataset' = [encoded_dataset EXCEPT
          ![p] = PostProcessAll(@, args[p].with_labels, dataset[p], labels[p])]
    /\ pc' = [pc EXCEPT ![p] = IF args[p].dataset_cache # "" THEN "save" ELSE "return"]
    /\ UNCHANGED <<nonPipeVars, world, cacheFile, writers, mixed, run, callsLeft, args, split_i, dataset,
                   labels, result, io, miss, completed, priorCompleted, saves>>

\* Line 129, torch.save opens the file for writing: the file exists, cut short.
SaveBegin(p) ==
    LET path == args[p].dataset_cache
    IN /\ pc[p] = "save"
       /\ cacheFile' = [cacheFile EXCEPT ![path] = Partial]
       /\ mixed' = [mixed EXCEPT ![path] = IF writers[path] = {}
                                           THEN {encoded_dataset[p]}
                                           ELSE @ \cup {encoded_dataset[p]}]
       /\ writers' = [writers EXCEPT ![path] = @ \cup {p}]
       /\ io' = [io EXCEPT ![p].write = @ + 1]
       /\ saves' = [saves EXCEPT ![p] = @ + 1]
       /\ pc' = [pc EXCEPT ![p] = "saving"]
       /\ UNCHANGED <<nonPipeVars, world, run, callsLeft, args, split_i, dataset, labels,
                      encoded_dataset, result, miss, completed, priorCompleted>>

\* What the file holds once its last writer closes it. Writers that wrote the
\* same bytes leave them; writers of different contents, unsynchronised on one
\* file, leave any one of the contents or a file that does not deserialize.
Written(path) ==
    IF Cardinality(mixed[path]) = 1
    THEN {Complete(c) : c \in mixed[path]}
    ELSE {Partial} \cup {Complete(c) : c \in mixed[path]}

\* Line 129, torch.save has written everything and closes the file.
SaveEnd(p) ==
    LET path == args[p].dataset_cache
    IN /\ pc[p] = "saving"
       /\ writers' = [writers EXCEPT ![path] = @ \ {p}]
       /\ IF writers[path] = {p}
          THEN \E f \in Written(path) : cacheFile' = [cacheFile EXCEPT ![path] = f]
          ELSE cacheFile' = cacheFile
       /\ pc' = [pc EXCEPT ![p] = "return"]
       /\ UNCHANGED <<nonPipeVars, world, mixed, run, callsLeft, args, split_i, dataset, labels,
                      encoded_dataset, result, io, miss, completed, priorCompleted, saves>>

\* Line 131: return encoded_dataset
Return(p) ==
    /\ pc[p] = "return"
    /\ result' = [result EXCEPT
                    ![p] = [status |-> "returned", value |-> encoded_dataset[p]]]
    /\ completed' = IF args[p].dataset_cache # ""
                    THEN completed \cup {args[p].dataset_cache}
                    ELSE completed
    /\ pc' = [pc EXCEPT ![p] = "idle"]
    /\ UNCHANGED <<nonPipeVars, world, cacheFile, writers, mixed, run, callsLeft, args, split_i, dataset,
                   labels, encoded_dataset, io, miss, priorCompleted, saves>>

Step(p) ==
    \/ Call(p)
    \/ CheckCache(p)
    \/ Load(p)
    \/ Acquire(p)
    \/ AcquireLabels(p)
    \/ Encode(p)
    \/ PostProcess(p)
    \/ SaveBegin(p)
    \/ SaveEnd(p)
    \/ Return(p)

\* What every run starts from: no call made yet.
InitPipe(w, files, r, calls) ==
    /\ world = w
    /\ cacheFile = files
    /\ writers = [path \in CachePaths |-> {}]
    /\ mixed = [path \in CachePaths |-> {}]
    /\ run = r
    /\ callsLeft = calls
    /\ pc = [p \in Procs |-> "idle"]
    /\ args = [p \in Procs |-> NoArgs]
    /\ split_i = [p \in Procs |-> 1]
    /\ dataset = [p \in Procs |-> EmptyDict]
    /\ labels = [p \in Procs |-> EmptyDict]
    /\ encoded_dataset = [p \in Procs |-> EmptyDict]
    /\ result = [p \in Procs |-> NoResult]
    /\ io = [p \in Procs |-> NoIO]
    /\ miss = [p \in Procs |-> FALSE]
    /\ completed = {}
    /\ priorCompleted = [p \in Procs |-> FALSE]
    /\ saves = [p \in Procs |-> 0]

\* pad_dataset is not called.
PadOff ==
    /\ padDataset = <<>>
    /\ padRest = <<>>
    /\ padPc = "off"
    /\ padResult = NoResult

\* average_distributed_scalar is not called.
AvgOff ==
    /\ world_size = 0
    /\ local_rank = <<>>
    /\ scalar = <<>>
    /\ scalar_t = <<>>
    /\ contributed = <<>>
    /\ avgPc = <<>>
    /\ avgResult = <<>>

TrainerEvents ==
    {"STARTED", "EPOCH_STARTED", "ITERATION_STARTED", "ITERATION_COMPLETED",
     "EPOCH_COMPLETED", "COMPLETED"}

EventKeys == {<<"trainer", e>> : e \in TrainerEvents} \cup {<<"evaluator", "COMPLETED">>}

\* A trainer as constructed, run for epochs of the given length.
NewTrainer(epochs, length) ==
    /\ engine = "new"
    /\ max_epochs = epochs
    /\ epoch_length = length
    /\ handlers = [k \in EventKeys |-> <<>>]
    /\ epoch = 0
    /\ iteration = 0
    /\ tb_scalars = 0
    /\ cp_iteration = 0
    /\ cp_saved = <<>>
    /\ log_dir = {}

\* No trainer is run.
TrainerOff == NewTrainer(0, 0)

\* The pipeline is not called.
PipeOff ==
    InitPipe(DefaultWorld, [path \in CachePaths |-> Absent], "cache",
             [p \in Procs |-> 0])

\* One process calls the pipeline again and again with any arguments; a cache
\* path may hold a file of an earlier run, whole or cut short.
InitCache ==
    /\ PadOff /\ AvgOff /\ TrainerOff
    /\ \E f1 \in {Absent, Partial, Complete(StaleContent)} :
        InitPipe(DefaultWorld,
                 [path \in CachePaths |-> IF path = "p1" THEN f1 ELSE Absent],
                 "cache",
                 [p \in Procs |-> IF p = 1 THEN MaxCalls ELSE 0])

NextPipe == \E p \in Procs : Step(p)

SpecCache == InitCache /\ [][NextPipe]_vars

\* The pipeline is called once on a corpus in which one resource holds a text
\* put together from a few pieces; the cache path may hold an earlier file.
RichLocs ==
    {Resolve(d)[Splits[i]] : d \in DatasetIds, i \in 1..2} \cup LabelLocs

TextsFor(loc) ==
    IF loc \in LabelLocs
    THEN TextsOf(LabelPieces, MaxLabelPieces)
    ELSE TextsOf(CorpusPieces, MaxPieces)

InitEncode ==
    /\ PadOff /\ AvgOff /\ TrainerOff
    /\ \E f1 \in {Absent, Complete(StaleContent)} :
      \E loc \in RichLocs :
        \E t \in TextsFor(loc) :
          InitPipe([DefaultWorld EXCEPT ![loc] = t],
                   [path \in CachePaths |-> IF path = "p1" THEN f1 ELSE Absent],
                   "encode",
                   [p \in Procs |-> IF p = 1 THEN 1 ELSE 0])

SpecEncode == InitEncode /\ [][NextPipe]_vars

\* Two processes call the pipeline at the same time with one cache path at
\* which no file exists, as the workers of a distributed run do.
InitRace ==
    /\ PadOff /\ AvgOff /\ TrainerOff
    /\ InitPipe(DefaultWorld, [path \in CachePaths |-> Absent], "race",
             [p \in Procs |-> MaxConcCalls])

SpecRace == InitRace /\ [][NextPipe]_vars

\* ----------------------------------------------------- pad_dataset: the call

\* Lines 51-57; max() of no row raises.
Pad ==
    /\ padPc = "idle"
    /\ LET padding == IF padRest = <<>> THEN 0 ELSE padRest[1]
       IN padResult' =
             IF padDataset = <<>>
             THEN [status |-> "raised", value |-> [error |-> "ValueError"]]
             ELSE [status |-> "returned", value |-> pad_dataset(padDataset, padding)]
    /\ padPc' = "done"
    /\ UNCHANGED <<padDataset, padRest, avgVars, ckptVars, pipeVars>>

\* pad_dataset is called once on a list of rows, with or without a fill value.
InitPad ==
    /\ padDataset \in SeqsUpTo(SeqsUpTo(RowValues, MaxRowLen), MaxRows)
    /\ padRest \in {<<>>} \cup {<<f>> : f \in Fills}
    /\ padPc = "idle"
    /\ padResult = NoResult
    /\ AvgOff /\ TrainerOff /\ PipeOff

SpecPad == InitPad /\ [][Pad]_vars

\* --------------------------------------- average_distributed_scalar: the calls

Workers == DOMAIN avgPc

\* Lines 44-46: the early return, or the tensor divided by the world size.
AvgStart(w) ==
    /\ avgPc[w] = "start"
    /\ IF local_rank[w] = -1
       THEN /\ avgResult' = [avgResult EXCEPT ![w] = scalar[w]]
            /\ avgPc' = [avgPc EXCEPT ![w] = "done"]
            /\ scalar_t' = scalar_t
       ELSE /\ scalar_t' = [scalar_t EXCEPT ![w] = Scaled(scalar[w], world_size)]
            /\ avgPc' = [avgPc EXCEPT ![w] = "all_reduce"]
            /\ avgResult' = avgResult
    /\ UNCHANGED <<world_size, local_rank, scalar, contributed,
                   padVars, ckptVars, pipeVars>>

\* Line 47: the worker enters the collective with its tensor and blocks.
AllReduceEnter(w) ==
    /\ avgPc[w] = "all_reduce"
    /\ contributed' = (w :> scalar_t[w]) @@ contributed
    /\ avgPc' = [avgPc EXCEPT ![w] = "waiting"]
    /\ UNCHANGED <<world_size, local_rank, scalar, scalar_t, avgResult,
                   padVars, ckptVars, pipeVars>>

\* Lines 47-48: every worker has entered; the tensor is the sum, item() is returned.
AllReduceLeave(w) ==
    /\ avgPc[w] = "waiting"
    /\ DOMAIN contributed = 1..world_size
    /\ scalar_t' = [scalar_t EXCEPT ![w] = SumFirst(contributed, world_size)]
    /\ avgResult' = [avgResult EXCEPT ![w] = SumFirst(contributed, world_size)]
    /\ avgPc' = [avgPc EXCEPT ![w] = "done"]
    /\ UNCHANGED <<world_size, local_rank, scalar, contributed,
                   padVars, ckptVars, pipeVars>>

AvgStep(w) ==
    \/ w \in Workers /\ AvgStart(w)
    \/ w \in Workers /\ AllReduceEnter(w)
    \/ w \in Workers /\ AllReduceLeave(w)

NextAvg == \E w \in 1..MaxWorkers : AvgStep(w)

ScalarInputs == {Frac(v, 1) : v \in Scalars} \cup {Frac(1, 2)}

\* Either one process outside distributed training (local_rank -1), or the
\* workers of an initialised process group; each calls the averager once.
InitAvg ==
    /\ world_size \in 0..MaxWorkers
    /\ LET W == 1..(IF world_size = 0 THEN 1 ELSE world_size)
       IN /\ local_rank = [w \in W |-> IF world_size = 0 THEN -1 ELSE w - 1]
          /\ scalar \in [W -> ScalarInputs]
          /\ scalar_t = [w \in W |-> Frac(0, 1)]
          /\ avgPc = [w \in W |-> "start"]
          /\ avgResult = [w \in W |-> Frac(0, 1)]
    /\ contributed = <<>>
    /\ PadOff /\ TrainerOff /\ PipeOff

SpecAvg == InitAvg /\ [][NextAvg]_vars

\* ------------------------------ add_logging_and_checkpoint_saving: the trainer

CheckpointFile(n, e) == [name |-> "checkpoint_mymodel", n |-> n, epoch |-> e]

\* ModelCheckpoint.__call__ of ignite: every save_interval-th call saves a file
\* named after the call count, then the oldest file beyond n_saved is removed.
ModelCheckpointCall(st) ==
    LET it == st.cp_iteration + 1
        called == [st EXCEPT !.cp_iteration = it]
    IN IF it % save_interval # 0 THEN called
       ELSE LET file == CheckpointFile(it, st.epoch)
                kept == IF Len(st.cp_saved) < n_saved \/ st.cp_saved[1][1] < it
                        THEN [called EXCEPT !.cp_saved = Append(@, <<it, file>>),
                                            !.log_dir = @ \cup {file}]
                        ELSE called
            IN IF Len(kept.cp_saved) > n_saved
               THEN [kept EXCEPT !.cp_saved = Tail(@),
                                 !.log_dir = @ \ {kept.cp_saved[1][2]}]
               ELSE kept

\* What one handler does to the writer, the checkpoint handler and the directory.
RunHandler(h, st) ==
    IF h = "checkpoint_handler" THEN ModelCheckpointCall(st)
    ELSE IF h \in {"tb.OutputHandler", "tb.OptimizerParamsHandler"}
         THEN [st EXCEPT !.tb_scalars = @ + 1]
         ELSE st

\* The handlers of an event run in attachment order.
RECURSIVE RunHandlers(_, _)
RunHandlers(hs, st) ==
    IF hs = <<>> THEN st ELSE RunHandlers(Tail(hs), RunHandler(Head(hs), st))

\* The trainer fires an event: its state after the handlers have run.
Fire(event, e, i) ==
    LET st == RunHandlers(handlers[<<"trainer", event>>],
                          [epoch |-> e, tb_scalars |-> tb_scalars,
                           cp_iteration |-> cp_iteration, cp_saved |-> cp_saved,
                           log_dir |-> log_dir])
    IN /\ epoch' = e
       /\ iteration' = i
       /\ tb_scalars' = st.tb_scalars
       /\ cp_iteration' = st.cp_iteration
       /\ cp_saved' = st.cp_saved
       /\ log_dir' = st.log_dir

AddHandler(hs, key, h) == [hs EXCEPT ![key] = Append(@, h)]

\* Lines 62-79: the handlers are attached and the training arguments saved.
Attach ==
    /\ engine = "new"
    /\ handlers' =
          AddHandler(
            AddHandler(
              AddHandler(
                AddHandler(
                  AddHandler(
                    AddHandler(
                      AddHandler(handlers,
                        <<"trainer", "ITERATION_COMPLETED">>, "RunningAverage.loss"),
                      <<"trainer", "ITERATION_COMPLETED">>, "pbar"),
                    <<"evaluator", "COMPLETED">>, "pbar.log_message"),
                  <<"trainer", "ITERATION_COMPLETED">>, "tb.OutputHandler"),
                <<"trainer", "ITERATION_STARTED">>, "tb.OptimizerParamsHandler"),
              <<"evaluator", "COMPLETED">>, "tb_log_metrics"),
            <<"trainer", CheckpointEvent>>, "checkpoint_handler")
    /\ log_dir' = log_dir \cup {[name |-> CONFIG_NAME, n |-> 0, epoch |-> 0]}
    /\ engine' = "attached"
    /\ UNCHANGED <<max_epochs, epoch_length, epoch, iteration, tb_scalars,
                   cp_iteration, cp_saved, padVars, avgVars, pipeVars>>

\* trainer.run: an epoch starts, at the start of the run or after an epoch.
EpochStarted ==
    /\ engine \in {"attached", "EPOCH_COMPLETED"}
    /\ epoch < max_epochs
    /\ Fire("EPOCH_STARTED", epoch + 1, iteration)
    /\ engine' = "EPOCH_STARTED"
    /\ UNCHANGED <<max_epochs, epoch_length, handlers, padVars, avgVars, pipeVars>>

IterationStarted ==
    /\ engine \in {"EPOCH_STARTED", "ITERATION_COMPLETED"}
    /\ iteration < epoch * epoch_length
    /\ Fire("ITERATION_STARTED", epoch, iteration + 1)
    /\ engine' = "ITERATION_STARTED"
    /\ UNCHANGED <<max_epochs, epoch_length, handlers, padVars, avgVars, pipeVars>>

IterationCompleted ==
    /\ engine = "ITERATION_STARTED"
    /\ Fire("ITERATION_COMPLETED", epoch, iteration)
    /\ engine' = "ITERATION_COMPLETED"
    /\ UNCHANGED <<max_epochs, epoch_length, handlers, padVars, avgVars, pipeVars>>

EpochCompleted ==
    /\ engine = "ITERATION_COMPLETED"
    /\ iteration = epoch * epoch_length
    /\ Fire("EPOCH_COMPLETED", epoch, iteration)
    /\ engine' = "EPOCH_COMPLETED"
    /\ UNCHANGED <<max_epochs, epoch_length, handlers, padVars, avgVars, pipeVars>>

RunCompleted ==
    /\ engine = "EPOCH_COMPLETED"
    /\ epoch = max_epochs
    /\ Fire("COMPLETED", epoch, iteration)
    /\ engine' = "COMPLETED"
    /\ UNCHANGED <<max_epochs, epoch_length, handlers, padVars, avgVars, pipeVars>>

NextTrainer ==
    \/ Attach
    \/ EpochStarted
    \/ IterationStarted
    \/ IterationCompleted
    \/ EpochCompleted
    \/ RunCompleted

\* A new trainer gets the handlers, then is run for some epochs of some length.
InitTrainer ==
    /\ \E epochs \in 1..MaxEpochs : \E length \in 1..MaxIters : NewTrainer(epochs, length)
    /\ PadOff /\ AvgOff /\ PipeOff

SpecTrainer == InitTrainer /\ [][NextTrainer]_vars

\* --------------------------------------------- reference notions of the claims

\* The positions of a line that hold none of the characters chars.
Kept(line, chars) == {i \in 1..Len(line) : line[i] \notin chars}

\* The line without its leading run of chars.
TrimLeading(line, chars) ==
    IF Kept(line, chars) = {} THEN <<>>
    ELSE SubSeq(line, SetMin(Kept(line, chars)), Len(line))

\* The line without its leading and its trailing run of chars.
TrimBoth(line, chars) ==
    IF Kept(line, chars) = {} THEN <<>>
    ELSE SubSeq(line, SetMin(Kept(line, chars)), SetMax(Kept(line, chars)))

\* One pass over a line from position i: a newline becomes [SEP], <unk> becomes [UNK].
RECURSIVE SubstituteFrom(_, _)
SubstituteFrom(line, i) ==
    IF i > Len(line) THEN <<>>
    ELSE IF line[i] = NL THEN SEP \o SubstituteFrom(line, i + 1)
    ELSE IF i + 4 <= Len(line) /\ SubSeq(line, i, i + 4) = RAWUNK
         THEN UNK \o SubstituteFrom(line, i + 5)
         ELSE <<line[i]>> \o SubstituteFrom(line, i + 1)

Substitute(line) == SubstituteFrom(line, 1)

\* The first n sequences of seqs, one after the other.
RECURSIVE ConcatFirst(_, _)
ConcatFirst(seqs, n) ==
    IF n = 0 THEN <<>> ELSE ConcatFirst(seqs, n - 1) \o seqs[n]

\* The number of fields a separator character cuts a line into.
Fields(line, sep) == 1 + Cardinality({i \in 1..Len(line) : line[i] = sep})

\* The lines of the split's file as the call of process p reads them.
RawLines(p, split_name) == readlines(world[Resolve(args[p].dataset_dir)[split_name]])

RawLabelLines(p, split_name) ==
    readlines(world[Resolve(args[p].dataset_dir).labels[split_name]])

SplitNames == {Splits[i] : i \in 1..Len(Splits)}

\* The call of p missed the cache and has read and preprocessed both splits.
Acquired(p) ==
    /\ miss[p]
    /\ pc[p] \in {"labels", "encode", "post", "save", "saving", "return"}

\* The call of p missed the cache and returned.
ReturnedFresh(p) == miss[p] /\ result[p].status = "returned"

\* C10 as stated: every line read is trimmed of its leading spaces only, then
\* newline becomes [SEP] and <unk> becomes [UNK]; lines keep number and order.
C10_LeadingOnly ==
    \A p \in Procs : Acquired(p) =>
        \A sn \in SplitNames :
            /\ Len(dataset[p][sn]) = Len(RawLines(p, sn))
            /\ \A i \in 1..Len(RawLines(p, sn)) :
                  dataset[p][sn][i] = Substitute(TrimLeading(RawLines(p, sn)[i], {SP}))

\* C10 amended: every line read is trimmed of its leading and of its trailing
\* spaces (a line that ends with its newline has no trailing spaces to lose),
\* then newline becomes [SEP] and <unk> becomes [UNK]; number and order of the
\* lines of the split are kept.
C10_BothEnds ==
    \A p \in Procs : Acquired(p) =>
        \A sn \in SplitNames :
            /\ Len(dataset[p][sn]) = Len(RawLines(p, sn))
            /\ \A i \in 1..Len(RawLines(p, sn)) :
                  dataset[p][sn][i] = Substitute(TrimBoth(RawLines(p, sn)[i], {SP}))

\* A last line without newline that starts and ends with spaces was preprocessed.
C10_Witness ==
    /\ Acquired(1)
    /\ \E sn \in SplitNames : \E i \in 1..Len(RawLines(1, sn)) :
          LET raw == RawLines(1, sn)[i]
          IN /\ Len(raw) >= 3
             /\ raw[1] = SP
             /\ raw[Len(raw)] = SP
             /\ Len(dataset[1][sn][i]) < Len(raw) - 1

\* C3: without labels, the value under a split name is one flat sequence of ids,
\* the per-line id sequences of the split's preprocessed lines one after the
\* other in line order; its length is the sum of the per-line lengths.
C3_FlatConcatenation ==
    \A p \in Procs : (ReturnedFresh(p) /\ ~args[p].with_labels) =>
        \A sn \in SplitNames :
            LET lines == dataset[p][sn]
                ids == [i \in 1..Len(lines) |->
                          convert_tokens_to_ids(args[p].tokenizer,
                                                tokenize(args[p].tokenizer, lines[i]))]
                flat == result[p].value[sn]
            IN /\ flat = ConcatFirst(ids, Len(ids))
               /\ \A k \in 1..Len(flat) : flat[k] \in Int
               /\ Len(flat) = sum([i \in 1..Len(ids) |-> Len(ids[i])])

\* A split of two lines with ids each was flattened.
C3_Witness ==
    /\ ReturnedFresh(1)
    /\ ~args[1].with_labels
    /\ \E sn \in SplitNames :
          /\ Len(dataset[1][sn]) >= 2
          /\ \A i \in 1..Len(dataset[1][sn]) : dataset[1][sn][i] # <<>>
          /\ Len(result[1].value[sn]) >= 3

NumWordsKey(sn) == IF sn = "train" THEN "train_num_words" ELSE "valid_num_words"

LabelsKey(sn) == IF sn = "train" THEN "train_labels" ELSE "valid_labels"

\* C4 as stated: <split>_num_words is the sum, over the raw lines of the split as
\* read from the file, of the number of space-delimited fields of the line.
C4_RawLines ==
    \A p \in Procs : (ReturnedFresh(p) /\ ~args[p].with_labels) =>
        \A sn \in SplitNames :
            result[p].value[NumWordsKey(sn)] =
                sum([i \in 1..Len(RawLines(p, sn)) |-> Fields(RawLines(p, sn)[i], SP)])

\* C4 amended: <split>_num_words is the sum, over the lines of the split after
\* their leading and trailing spaces are trimmed, of the number of
\* space-delimited fields of the line (the substitutions change no space).
C4_TrimmedLines ==
    \A p \in Procs : (ReturnedFresh(p) /\ ~args[p].with_labels) =>
        \A sn \in SplitNames :
            result[p].value[NumWordsKey(sn)] =
                sum([i \in 1..Len(RawLines(p, sn)) |->
                        Fields(TrimBoth(RawLines(p, sn)[i], {SP}), SP)])

\* A split with a line that has a leading space and an inner double space was counted.
C4_Witness ==
    /\ ReturnedFresh(1)
    /\ ~args[1].with_labels
    /\ \E sn \in SplitNames : \E i \in 1..Len(RawLines(1, sn)) :
          LET raw == RawLines(1, sn)[i]
          IN /\ raw[1] = SP
             /\ Fields(TrimBoth(raw, {SP}), SP) >= 2
             /\ result[1].value[NumWordsKey(sn)] >= 2

\* Every label line of both splits, stripped of whitespace, is "pos" or "neg".
AllLabelsKnown(p) ==
    \A sn \in SplitNames : \A i \in 1..Len(RawLabelLines(p, sn)) :
        TrimBoth(RawLabelLines(p, sn)[i], Whitespace) \in
            {<<"p", "o", "s">>, <<"n", "e", "g">>}

LabelOf(line) == IF TrimBoth(line, Whitespace) = <<"p", "o", "s">> THEN 0 ELSE 1

\* The call of p asks for labels of the registry dataset that has them.
LabelledCall(p) == miss[p] /\ args[p].with_labels /\ args[p].dataset_dir = "imdb"

\* C6: with labels on the registry dataset that has them, <split>_labels is the
\* stripped label lines in file order mapped by pos -> 0, neg -> 1; when some
\* stripped label line is no key of the table the call raises and returns nothing,
\* and a lookup failure is raised in no other case.
C6_Labels ==
    \A p \in Procs : LabelledCall(p) =>
        /\ result[p].status = "returned" =>
              /\ AllLabelsKnown(p)
              /\ \A sn \in SplitNames :
                    /\ Len(result[p].value[LabelsKey(sn)]) = Len(RawLabelLines(p, sn))
                    /\ \A i \in 1..Len(RawLabelLines(p, sn)) :
                          result[p].value[LabelsKey(sn)][i] = LabelOf(RawLabelLines(p, sn)[i])
        /\ ~AllLabelsKnown(p) =>
              /\ result[p].status # "returned"
              /\ pc[p] \notin {"encode", "post", "save", "saving", "return"}
        /\ (result[p].status = "raised" /\ result[p].value.error = "KeyError") =>
              ~AllLabelsKnown(p)

\* A label line " pos" with a leading space was converted to 0, another line to 1,
\* and the call returned.
C6_Witness ==
    /\ LabelledCall(1)
    /\ result[1].status = "returned"
    /\ \E sn \in SplitNames : \E i \in 1..Len(RawLabelLines(1, sn)) :
          /\ RawLabelLines(1, sn)[i][1] = SP
          /\ result[1].value[LabelsKey(sn)][i] = 0
    /\ \E sn \in SplitNames : \E j \in 1..Len(RawLabelLines(1, sn)) :
          result[1].value[LabelsKey(sn)][j] = 1

\* C2: a call whose cache path an earlier call has returned from takes the cache:
\* it downloads nothing, reads no corpus file, calls no tokenizer, writes
\* nothing, does not fail, and returns exactly what the file at the path holds,
\* whatever dataset, tokenizer and with_labels it was given.
C2_CacheHit ==
    \A p \in Procs : priorCompleted[p] =>
        /\ pc[p] \in {"check", "load", "return", "idle"}
        /\ ~miss[p]
        /\ io[p] = NoIO
        /\ result[p].status # "raised"
        /\ result[p].status = "returned" =>
              /\ cacheFile[args[p].dataset_cache].kind = "complete"
              /\ result[p].value = cacheFile[args[p].dataset_cache].content

\* A later call that asked for labels returned the unlabelled content an earlier
\* call had cached at the path.
C2_Witness ==
    /\ priorCompleted[1]
    /\ result[1].status = "returned"
    /\ args[1].with_labels
    /\ args[1].dataset_dir = "imdb"
    /\ "train_num_words" \in DOMAIN result[1].value
    /\ result[1].value # StaleContent

\* C7: a call that missed the cache and raised leaves no file at its cache path,
\* so the next call with that path misses again.
C7_NothingCached ==
    \A p \in Procs :
        (miss[p] /\ result[p].status = "raised" /\ args[p].dataset_cache # "") =>
            /\ cacheFile[args[p].dataset_cache] = Absent
            /\ ~isfile(args[p].dataset_cache)

\* A second call with a cache path failed on a label lookup after its splits
\* were read, the first call having failed too.
C7_Witness ==
    /\ miss[1]
    /\ callsLeft[1] = MaxCalls - 2
    /\ result[1].status = "raised"
    /\ result[1].value.error = "KeyError"
    /\ args[1].dataset_cache = "p1"
    /\ completed = {}

\* C9: no step that touches the cache file waits for the other process: whatever
\* the other process is doing, a process at the test of line 84 takes it, a
\* process that found the file loads it, and a process that has its encoded
\* dataset opens, writes and closes the file.
C9_NoExclusion ==
    \A p \in Procs :
        /\ pc[p] = "check" => ENABLED CheckCache(p)
        /\ pc[p] = "load" => ENABLED Load(p)
        /\ pc[p] = "save" => ENABLED SaveBegin(p)
        /\ pc[p] = "saving" => ENABLED SaveEnd(p)

\* Both processes missed the cache, ran acquisition and tokenization and opened
\* the file for writing; process 1 has returned and called again, has found the
\* file process 2 is still writing, and has failed to load it.
C9_Witness ==
    /\ saves[1] = 1
    /\ saves[2] = 1
    /\ miss[2]
    /\ io[2].tokenize > 0
    /\ pc[2] = "saving"
    /\ cacheFile["p1"] = Partial
    /\ "p1" \in completed
    /\ ~miss[1]
    /\ result[1].status = "raised"
    /\ result[1].value.error = "UnpicklingError"

\* C1: for a non-empty list of rows and any fill value (0 when none is given),
\* the result has as many rows, every row as long as the longest input row, row i
\* starting with input row i and holding only the fill value after it; rows that
\* all have one length come back equal to the input.
C1_Padded ==
    (padPc = "done" /\ padDataset # <<>>) =>
        LET fill == IF padRest = <<>> THEN 0 ELSE padRest[1]
            out == padResult.value
            longest == CHOOSE m \in 0..MaxRowLen + 1 :
                          /\ \A i \in 1..Len(padDataset) : Len(padDataset[i]) <= m
                          /\ \E i \in 1..Len(padDataset) : Len(padDataset[i]) = m
        IN /\ padResult.status = "returned"
           /\ Len(out) = Len(padDataset)
           /\ \A i \in 1..Len(padDataset) :
                 /\ Len(out[i]) = longest
                 /\ \A k \in 1..Len(padDataset[i]) : out[i][k] = padDataset[i][k]
                 /\ \A k \in (Len(padDataset[i]) + 1)..longest : out[i][k] = fill
           /\ (\A i, j \in 1..Len(padDataset) : Len(padDataset[i]) = Len(padDataset[j]))
                 => out = padDataset

\* Rows of different lengths, an empty one and one holding the fill value among
\* them, were padded with the default fill.
C1_Witness ==
    /\ padPc = "done"
    /\ padRest = <<>>
    /\ Len(padDataset) >= 3
    /\ \E i, j, k \in 1..Len(padDataset) :
          /\ padDataset[i] = <<>>
          /\ Len(padDataset[j]) = 1
          /\ Len(padDataset[k]) = 2 /\ padDataset[k][2] = 0
          /\ padResult.value[i] = <<0, 0>>

\* The sum of the scalars of workers n, n-1, ..., 1.
RECURSIVE TotalDown(_)
TotalDown(n) == IF n = 0 THEN Frac(0, 1) ELSE FracAdd(scalar[n], TotalDown(n - 1))

\* C5: in distributed mode a worker's call returns only once all workers have
\* called, and returns the sum of their scalars divided by their number, the same
\* at every worker; with local_rank -1 the call returns its scalar as it is and
\* enters no collective.
C5_Average ==
    \A w \in Workers : avgPc[w] = "done" =>
        IF local_rank[w] = -1
        THEN /\ avgResult[w] = scalar[w]
             /\ DOMAIN contributed = {}
        ELSE /\ DOMAIN contributed = Workers
             /\ FracEq(avgResult[w],
                       Frac(TotalDown(world_size).num,
                            TotalDown(world_size).den * world_size))
             /\ \A v \in Workers : avgPc[v] = "done" => FracEq(avgResult[v], avgResult[w])

\* Three workers with scalars that differ have all returned their average.
C5_Witness ==
    /\ world_size = 3
    /\ \A w \in Workers : avgPc[w] = "done"
    /\ scalar[1] = Frac(3, 1) /\ scalar[2] = Frac(0, 1) /\ scalar[3] = Frac(1, 2)
    /\ FracEq(avgResult[1], Frac(7, 6))

\* The epochs that have completed: all but the one that is running.
EpochsCompleted ==
    IF engine \in {"EPOCH_STARTED", "ITERATION_STARTED", "ITERATION_COMPLETED"}
    THEN epoch - 1
    ELSE epoch

Checkpoints == {f \in log_dir : f.name # CONFIG_NAME}

\* C8: once the handlers are attached, after N completed epochs the directory
\* holds the checkpoints of the last 3 completed epochs, or of all N when N <= 3,
\* and no other checkpoint.
C8_Retention ==
    engine # "new" =>
        LET N == EpochsCompleted
            first == IF N > 3 THEN N - 2 ELSE 1
        IN /\ Checkpoints = {CheckpointFile(k, k) : k \in first..N}
           /\ Cardinality(Checkpoints) = IF N > 3 THEN 3 ELSE N

\* Five epochs have completed and the checkpoints of epochs 1 and 2 are gone.
C8_Witness ==
    /\ engine = "COMPLETED"
    /\ epoch = 5
    /\ Checkpoints = {CheckpointFile(3, 3), CheckpointFile(4, 4), CheckpointFile(5, 5)}
    /\ CheckpointFile(1, 1) \notin log_dir

====
